---- MODULE Spec2Model ----
(***************************************************************************)
(* Model of src/notebooks/scripts/stream.py: the cached CSV loader         *)
(* load_data, the CrossCountryAnalyzer aggregations, the per-country       *)
(* insight function and the page dispatch of main.                         *)
(*                                                                         *)
(* Representation.                                                         *)
(*  - A numeric cell is <<v>> (the value v) or <<>> (missing, NaN).        *)
(*  - A statistic is the rational <<num, den>> (den > 0) or <<>> (NaN).    *)
(*  - A table (DataFrame) is [cols, rows]; a row record stands for n       *)
(*    consecutive identical records (run-length encoding), so tables of    *)
(*    thousands of rows stay small.                                        *)
(*  - A Timestamp is a number of minutes; .dt.hour is (t \div 60) % 24.    *)
(*  - pandas semantics are those of pandas 1.x/2.x, where ser[0] on a      *)
(*    string-labelled Series is positional and Series.argsort writes -1    *)
(*    at NaN positions.                                                    *)
(***************************************************************************)
EXTENDS Integers, Sequences, FiniteSets, TLC

VARIABLES
    files,          \* the CSV file behind each path of file_paths
    cache,          \* the store of @st.cache_data for load_data
    comparison_df,  \* main's comparison_df (None before the first run)
    countries,      \* main's countries mapping
    comparator,     \* main's CrossCountryAnalyzer, None when not constructed
    notes,          \* the st.info / st.error notifications of the last run
    op,             \* the page or function that ran last
    view            \* what the last page rendered or the last call returned

vars == <<files, cache, comparison_df, countries, comparator, notes, op, view>>

----------------------------------------------------------------------------
(* Bounds of the model *)

MaxRows == 2
MaxDashRows == 1
MaxPeakRows == 3

(* Program constants *)

SampleSize == 5000
HeadSize == 1000
RefTemp == 25

NaN == <<>>
None == [none |-> TRUE]
NoView == [kind |-> "none"]

FilePaths == <<"Benin", "Sierra Leone", "Togo">>
Countries == {FilePaths[i] : i \in DOMAIN FilePaths}
Metrics == <<"GHI", "DNI", "DHI">>
CsvColumns == {"Timestamp", "GHI", "DNI", "DHI", "Tamb"}

(* Alphabetical order of the country labels: the key order of a groupby. *)
SortedLabels == <<"Benin", "Sierra Leone", "Togo">>

----------------------------------------------------------------------------
(* Arithmetic on cells and statistics *)

IsNaN(x) == x = <<>>

Abs(i) == IF i < 0 THEN -i ELSE i

RatLess(a, b) == a[1] * b[2] < b[1] * a[2]

RatEq(a, b) == a[1] * b[2] = b[1] * a[2]

(* format(x, '.2f'): the number of hundredths shown, <<>> for "nan". *)
Fmt2(x) ==
    IF IsNaN(x) THEN NaN
    ELSE LET q == (100 * x[1]) \div x[2]
             r == (100 * x[1]) % x[2]
         IN  IF 2 * r < x[2] THEN <<q>>
             ELSE IF 2 * r > x[2] THEN <<q + 1>>
             ELSE IF q % 2 = 0 THEN <<q>> ELSE <<q + 1>>

----------------------------------------------------------------------------
(* Tables and Series *)

RECURSIVE SumN(_, _)
SumN(rows, i) == IF i > Len(rows) THEN 0 ELSE rows[i].n + SumN(rows, i + 1)

(* len(df) *)
NRows(df) == SumN(df.rows, 1)

(* df.empty *)
IsEmpty(df) == NRows(df) = 0 \/ df.cols = {}

(* df[col]: the Series of a column, as runs [v, n] *)
Column(df, col) == [k \in DOMAIN df.rows |-> [v |-> df.rows[k][col], n |-> df.rows[k].n]]

RECURSIVE CountValid(_, _)
CountValid(s, i) ==
    IF i > Len(s) THEN 0
    ELSE (IF IsNaN(s[i].v) THEN 0 ELSE s[i].n) + CountValid(s, i + 1)

RECURSIVE SumValid(_, _)
SumValid(s, i) ==
    IF i > Len(s) THEN 0
    ELSE (IF IsNaN(s[i].v) THEN 0 ELSE s[i].n * s[i].v[1]) + SumValid(s, i + 1)

(* a mean that counts a missing cell as a zero *)
MeanCountsNaN(s) ==
    IF Len(s) = 0 THEN NaN ELSE <<SumValid(s, 1), SumN(s, 1)>>

(* Series.mean(), skipna=True *)
Mean(s) ==
    IF CountValid(s, 1) = 0 THEN NaN ELSE <<SumValid(s, 1), CountValid(s, 1)>>

----------------------------------------------------------------------------
(* load_data *)

(* a loop body that keeps the country of a failed read *)
load_one_KeepsFailed(st, country, f) ==
    LET df == [cols |-> f.cols \cup {"Country"},
               rows |-> [k \in DOMAIN f.rows |-> f.rows[k] @@ [Country |-> country]]]
    IN  [countries |-> st.countries @@ (country :> df),
         notes |-> Append(st.notes, [kind |-> "info", country |-> country,
                                     records |-> NRows(df)])]

(* One iteration of the for loop: the try body, or the except branch when *)
(* pd.read_csv raises (no file) or df['Timestamp'] cannot be parsed.      *)
load_one(st, country, f) ==
    IF f.exists /\ "Timestamp" \in f.cols
    THEN LET df == [cols |-> f.cols \cup {"Country"},
                    rows |-> [k \in DOMAIN f.rows |->
                                 f.rows[k] @@ [Country |-> country]]]
         IN  [countries |-> st.countries @@ (country :> df),
              notes |-> Append(st.notes, [kind |-> "info", country |-> country,
                                          records |-> NRows(df)])]
    ELSE [countries |-> st.countries,
          notes |-> Append(st.notes, [kind |-> "error", country |-> country,
                                      records |-> 0])]

RECURSIVE load_loop(_, _, _)
load_loop(fs, i, st) ==
    IF i > Len(FilePaths) THEN st
    ELSE load_loop(fs, i + 1, load_one(st, FilePaths[i], fs[FilePaths[i]]))

(* countries.values(), in insertion order *)
ValuesOf(cs) ==
    LET keys == SelectSeq(FilePaths, LAMBDA c : c \in DOMAIN cs)
    IN  [i \in DOMAIN keys |-> cs[keys[i]]]

RECURSIVE ConcatRows(_, _)
ConcatRows(dfs, i) ==
    IF i > Len(dfs) THEN <<>> ELSE dfs[i].rows \o ConcatRows(dfs, i + 1)

(* pd.concat(dfs, ignore_index=True) *)
Concat(dfs) ==
    [cols |-> UNION {dfs[i].cols : i \in DOMAIN dfs}, rows |-> ConcatRows(dfs, 1)]

(* a load that returns None unless all three countries loaded *)
load_data_AllRequired(fs) ==
    LET r == load_loop(fs, 1, [countries |-> <<>>, notes |-> <<>>])
    IN  IF DOMAIN r.countries = Countries
        THEN [comparison_df |-> Concat(ValuesOf(r.countries)),
              countries |-> r.countries, notes |-> r.notes]
        ELSE [comparison_df |-> None, countries |-> <<>>, notes |-> r.notes]

load_data(fs) ==
    LET r == load_loop(fs, 1, [countries |-> <<>>, notes |-> <<>>])
    IN  IF DOMAIN r.countries # {}
        THEN [comparison_df |-> Concat(ValuesOf(r.countries)),
              countries |-> r.countries, notes |-> r.notes]
        ELSE [comparison_df |-> None, countries |-> <<>>, notes |-> r.notes]


----------------------------------------------------------------------------
(* CrossCountryAnalyzer *)

Fault(exc) == [kind |-> "fault", exc |-> exc]

HasLabel(df, c) == \E k \in DOMAIN df.rows : df.rows[k].Country = c /\ df.rows[k].n > 0

RowOfLabel(r, c) == r.Country = c

(* df[df['Country'] == country] *)
CountryFrame(df, c) ==
    [cols |-> df.cols, rows |-> SelectSeq(df.rows, LAMBDA r : RowOfLabel(r, c))]

(* df.groupby('Country')[col].mean(): a Series labelled by the countries *)
(* that have rows, in sorted label order                                 *)
GroupMeans(df, col) ==
    LET keys == SelectSeq(SortedLabels, LAMBDA c : HasLabel(df, c))
    IN  [i \in DOMAIN keys |->
            [key |-> keys[i], val |-> Mean(Column(CountryFrame(df, keys[i]), col))]]

(* (ser - 25).abs() *)
AbsDiff(ser, ref) ==
    [i \in DOMAIN ser |->
        [key |-> ser[i].key,
         val |-> IF IsNaN(ser[i].val) THEN NaN
                 ELSE <<Abs(ser[i].val[1] - ref * ser[i].val[2]), ser[i].val[2]>>]]

(* np.argsort of an array without NaN, as 0-based positions; the sort of *)
(* an array of fewer than 17 elements is an insertion sort, so it is     *)
(* stable                                                                *)
NpArgsort(a) ==
    LET Before(j, i) == RatLess(a[j], a[i]) \/ (RatEq(a[j], a[i]) /\ j < i)
        Rank(i) == Cardinality({j \in DOMAIN a : Before(j, i)}) + 1
    IN  [k \in DOMAIN a |-> (CHOOSE i \in DOMAIN a : Rank(i) = k) - 1]

(* Series.argsort() of pandas 1.x/2.x: the NaN positions get -1 and the  *)
(* other positions get, in order, the argsort of the array with the NaN  *)
(* removed (positions within that shorter array)                         *)
SeriesArgsort(ser) ==
    LET valid == SelectSeq([i \in DOMAIN ser |-> i], LAMBDA i : ~IsNaN(ser[i].val))
        sorted == NpArgsort([k \in DOMAIN valid |-> ser[valid[k]].val])
        NthValid(i) == Cardinality({j \in 1..i : ~IsNaN(ser[j].val)})
    IN  [i \in DOMAIN ser |-> IF IsNaN(ser[i].val) THEN -1 ELSE sorted[NthValid(i)]]

(* seq[i] with Python's 0-based and negative indices *)
PyIndex(seq, i) == IF i < 0 THEN seq[Len(seq) + i + 1] ELSE seq[i + 1]

(* ser.get(label, 0) *)
GetOrZero(ser, label) ==
    IF \E i \in DOMAIN ser : ser[i].key = label
    THEN (CHOOSE e \in {ser[i] : i \in DOMAIN ser} : e.key = label).val
    ELSE <<0, 1>>

Line(country, value) == [country |-> country, shown |-> Fmt2(value)]

generate_key_observations(df) ==
    LET temp_means == GroupMeans(df, "Tamb")
        order == SeriesArgsort(AbsDiff(temp_means, RefTemp))
    IN  IF Len(order) = 0 THEN Fault("IndexError")
        ELSE LET closest_idx == order[1]
                 optimal == PyIndex(temp_means, closest_idx)
                 ghi_means == GroupMeans(df, "GHI")
                 dni_means == GroupMeans(df, "DNI")
             IN  [kind |-> "observations",
                  ranking |-> <<Line("Benin", GetOrZero(ghi_means, "Benin")),
                                Line("Togo", GetOrZero(ghi_means, "Togo")),
                                Line("Sierra Leone", GetOrZero(ghi_means, "Sierra Leone"))>>,
                  highest |-> Line("Benin", GetOrZero(ghi_means, "Benin")),
                  best_dni |-> Line("Benin", GetOrZero(dni_means, "Benin")),
                  optimal |-> Line(optimal.key, optimal.val)]

----------------------------------------------------------------------------
(* summary_statistics_table *)

RECURSIVE SumSqValid(_, _)
SumSqValid(s, i) ==
    IF i > Len(s) THEN 0
    ELSE (IF IsNaN(s[i].v) THEN 0 ELSE s[i].n * s[i].v[1] * s[i].v[1])
         + SumSqValid(s, i + 1)

(* the k-th smallest of the non-missing values, k in 1..CountValid *)
KthSmallest(s, k) ==
    LET V == {s[i].v[1] : i \in {j \in DOMAIN s : ~IsNaN(s[j].v)}}
        Upto(v) == CountValid(SelectSeq(s, LAMBDA e : ~IsNaN(e.v) /\ e.v[1] <= v), 1)
        Below(v) == CountValid(SelectSeq(s, LAMBDA e : ~IsNaN(e.v) /\ e.v[1] < v), 1)
    IN  CHOOSE v \in V : Below(v) < k /\ k <= Upto(v)

(* Series.median(), skipna=True *)
Median(s) ==
    LET cnt == CountValid(s, 1)
    IN  IF cnt = 0 THEN NaN
        ELSE IF cnt % 2 = 1 THEN <<KthSmallest(s, (cnt + 1) \div 2), 1>>
        ELSE <<KthSmallest(s, cnt \div 2) + KthSmallest(s, cnt \div 2 + 1), 2>>

(* Series.std() is the square root of the sample variance (ddof=1); the  *)
(* table holds the variance, the radicand                                *)
StdSquared(s) ==
    LET cnt == CountValid(s, 1)
    IN  IF cnt < 2 THEN NaN
        ELSE <<cnt * SumSqValid(s, 1) - SumValid(s, 1) * SumValid(s, 1),
               cnt * (cnt - 1)>>

RECURSIVE FoldMin(_, _, _)
FoldMin(s, i, best) ==
    IF i > Len(s) THEN best
    ELSE IF IsNaN(s[i].v) THEN FoldMin(s, i + 1, best)
    ELSE IF IsNaN(best) \/ s[i].v[1] < best[1] THEN FoldMin(s, i + 1, <<s[i].v[1], 1>>)
    ELSE FoldMin(s, i + 1, best)

RECURSIVE FoldMax(_, _, _)
FoldMax(s, i, best) ==
    IF i > Len(s) THEN best
    ELSE IF IsNaN(s[i].v) THEN FoldMax(s, i + 1, best)
    ELSE IF IsNaN(best) \/ s[i].v[1] > best[1] THEN FoldMax(s, i + 1, <<s[i].v[1], 1>>)
    ELSE FoldMax(s, i + 1, best)

(* Series.min(), Series.max(), skipna=True *)
Min(s) == FoldMin(s, 1, NaN)

Max(s) == FoldMax(s, 1, NaN)

RECURSIVE LabelsInOrder(_, _)
LabelsInOrder(rows, i) ==
    IF i > Len(rows) THEN <<>> ELSE <<rows[i].Country>> \o LabelsInOrder(rows, i + 1)

RECURSIVE Dedup(_, _, _)
Dedup(seq, i, seen) ==
    IF i > Len(seq) THEN <<>>
    ELSE IF seq[i] \in seen THEN Dedup(seq, i + 1, seen)
    ELSE <<seq[i]>> \o Dedup(seq, i + 1, seen \cup {seq[i]})

(* df['Country'].unique(): the labels in order of first appearance *)
Unique(df) == Dedup(LabelsInOrder(df.rows, 1), 1, {})

(* the dict built in the inner loop for one country and one metric *)
SummaryRow(df, country, metric) ==
    LET col == Column(CountryFrame(df, country), metric)
    IN  [Country |-> country, Metric |-> metric,
         Mean |-> Mean(col), Median |-> Median(col), StdDev |-> StdSquared(col),
         Min |-> Min(col), Max |-> Max(col)]

(* the (country, metric) of each pass of the two nested loops, in order *)
SummaryKeys(df) ==
    LET cs == Unique(df)
    IN  [k \in 1..(Len(cs) * Len(Metrics)) |->
            <<cs[((k - 1) \div Len(Metrics)) + 1], Metrics[((k - 1) % Len(Metrics)) + 1]>>]

(* summary_data after the two nested loops *)
SummaryData(df) ==
    LET keys == SummaryKeys(df)
    IN  [k \in DOMAIN keys |-> SummaryRow(df, keys[k][1], keys[k][2])]

(* pd.DataFrame(rows).pivot(index='Country', columns='Metric', values=...) *)
Pivot(rows) ==
    IF Len(rows) = 0 THEN Fault("KeyError")
    ELSE IF \E i, j \in DOMAIN rows :
                i # j /\ rows[i].Country = rows[j].Country
                      /\ rows[i].Metric = rows[j].Metric
    THEN Fault("ValueError")
    ELSE [kind |-> "summary",
          table |-> [p \in {<<rows[i].Country, rows[i].Metric>> : i \in DOMAIN rows} |->
                        CHOOSE r \in {rows[i] : i \in DOMAIN rows} :
                            r.Country = p[1] /\ r.Metric = p[2]]]

summary_statistics_table(df) == Pivot(SummaryData(df))

----------------------------------------------------------------------------
(* generate_country_insights *)

(* Timestamp.hour *)
HourOf(t) == (t \div 60) % 24

(* df['Hour'] = df['Timestamp'].dt.hour *)
WithHour(df) ==
    [cols |-> df.cols \cup {"Hour"},
     rows |-> [k \in DOMAIN df.rows |->
                  [Hour |-> HourOf(df.rows[k].Timestamp)] @@ df.rows[k]]]

(* df.groupby('Hour')['GHI'].mean() at one hour label *)
HourMean(df, h) ==
    Mean(Column([cols |-> df.cols,
                 rows |-> SelectSeq(df.rows, LAMBDA r : r.Hour = h)], "GHI"))

(* an idxmax in which the last of several equal maxima wins *)
RECURSIVE IdxMaxLastWins(_, _, _)
IdxMaxLastWins(df, h, best) ==
    IF h > 23 THEN best
    ELSE LET m == HourMean(df, h)
         IN  IF IsNaN(m) THEN IdxMaxLastWins(df, h + 1, best)
             ELSE IF IsNaN(best) \/ ~RatLess(m, HourMean(df, best[1]))
                  THEN IdxMaxLastWins(df, h + 1, <<h>>)
             ELSE IdxMaxLastWins(df, h + 1, best)

(* Series.idxmax() of the hourly means (pandas 1.x/2.x): the labels are  *)
(* scanned in ascending order, NaN is skipped, the first maximum wins,   *)
(* and the answer is NaN when every mean is NaN                          *)
RECURSIVE IdxMax(_, _, _)
IdxMax(df, h, best) ==
    IF h > 23 THEN best
    ELSE LET m == HourMean(df, h)
         IN  IF IsNaN(m) THEN IdxMax(df, h + 1, best)
             ELSE IF IsNaN(best) \/ RatLess(HourMean(df, best[1]), m)
                  THEN IdxMax(df, h + 1, <<h>>)
             ELSE IdxMax(df, h + 1, best)

IsNone(df) == df = None

(* a guard that tests only df is None: an empty frame reaches idxmax *)
generate_country_insights_NoneOnly(df, country) ==
    IF IsNone(df)
    THEN [ret |-> [kind |-> "placeholder"], df |-> df]
    ELSE IF NRows(df) = 0
    THEN [ret |-> Fault("ValueError"), df |-> WithHour(df)]
    ELSE LET d == WithHour(df)
         IN  [ret |-> [kind |-> "insights", country |-> country,
                       avg_ghi |-> Fmt2(Mean(Column(d, "GHI"))),
                       avg_dni |-> Fmt2(Mean(Column(d, "DNI"))),
                       avg_dhi |-> Fmt2(Mean(Column(d, "DHI"))),
                       avg_temp |-> Fmt2(Mean(Column(d, "Tamb"))),
                       peak_hour |-> IdxMax(d, 0, NaN)],
              df |-> d]

(* returns the text and the argument as the call leaves it *)
generate_country_insights(df, country) ==
    IF IsNone(df) \/ IsEmpty(df)
    THEN [ret |-> [kind |-> "placeholder"], df |-> df]
    ELSE LET d == WithHour(df)
         IN  [ret |-> [kind |-> "insights", country |-> country,
                       avg_ghi |-> Fmt2(Mean(Column(d, "GHI"))),
                       avg_dni |-> Fmt2(Mean(Column(d, "DNI"))),
                       avg_dhi |-> Fmt2(Mean(Column(d, "DHI"))),
                       avg_temp |-> Fmt2(Mean(Column(d, "Tamb"))),
                       peak_hour |-> IdxMax(d, 0, NaN)],
              df |-> d]

----------------------------------------------------------------------------
(* The CSV files the runs read *)

Row(t, g, d, h, a, n) ==
    [Timestamp |-> t, GHI |-> g, DNI |-> d, DHI |-> h, Tamb |-> a, n |-> n]

SeqsUpTo(S, n) == UNION {[1..k -> S] : k \in 0..n}

CsvFile(rows) == [exists |-> TRUE, cols |-> CsvColumns, rows |-> rows]

(* no file at the path: pd.read_csv raises *)
MissingFile == [exists |-> FALSE, cols |-> {}, rows |-> <<>>]

(* a readable CSV without a Timestamp column: df['Timestamp'] raises *)
NoTimestampFile ==
    [exists |-> TRUE, cols |-> CsvColumns \ {"Timestamp"},
     rows |-> <<[GHI |-> <<5>>, DNI |-> <<3>>, DHI |-> <<1>>, Tamb |-> <<26>>, n |-> 1]>>]

FilesOver(rowSet, maxRows) ==
    {MissingFile, NoTimestampFile} \cup {CsvFile(rs) : rs \in SeqsUpTo(rowSet, maxRows)}

(* rows of the dashboard runs: one record, and a run one short of the sample size *)
DashRows ==
    {Row(720, <<5>>, <<3>>, <<1>>, <<26>>, 1),
     Row(60, NaN, <<2>>, NaN, <<24>>, SampleSize - 1)}

----------------------------------------------------------------------------
(* The dashboard: every action is one run of main, or one direct call *)

EmptyLoad == [comparison_df |-> None, countries |-> <<>>, notes |-> <<>>]

Note(kind, country, records) == [kind |-> kind, country |-> country, records |-> records]

Analyzer == [df |-> "comparison_df"]

(* @st.cache_data: the first call computes and stores, later calls replay *)
cached_load == IF cache.filled THEN cache.value ELSE load_data(files)

Init ==
    /\ files \in [Countries -> FilesOver(DashRows, MaxDashRows)]
    /\ cache = [filled |-> FALSE, value |-> EmptyLoad]
    /\ comparison_df = None
    /\ countries = <<>>
    /\ comparator = None
    /\ notes = <<>>
    /\ op = "start"
    /\ view = NoView

(* lines 170-174: nothing loaded, main reports and returns *)
MainHalt ==
    LET r == cached_load
    IN  /\ r.comparison_df = None
        /\ cache' = [filled |-> TRUE, value |-> r]
        /\ comparison_df' = r.comparison_df
        /\ countries' = r.countries
        /\ comparator' = None
        /\ notes' = Append(r.notes, Note("error", "No data loaded", 0))
        /\ op' = "main"
        /\ view' = [kind |-> "halt"]
        /\ UNCHANGED files

(* lines 170-196 *)
Overview ==
    LET r == cached_load
        df == WithHour(r.comparison_df)
    IN  /\ r.comparison_df # None
        /\ cache' = [filled |-> TRUE, value |-> r]
        /\ comparison_df' = df
        /\ countries' = r.countries
        /\ comparator' = Analyzer
        /\ notes' = r.notes
        /\ op' = "Overview"
        /\ view' = IF NRows(df) < SampleSize
                   THEN Fault("ValueError")
                   ELSE [kind |-> "overview",
                         total_records |-> NRows(r.comparison_df),
                         countries_analyzed |-> Cardinality(DOMAIN r.countries),
                         avg_ghi |-> Fmt2(Mean(Column(r.comparison_df, "GHI"))),
                         sampled |-> SampleSize]
        /\ UNCHANGED files

(* lines 170-180, 198-205 *)
CountryComparison ==
    LET r == cached_load
    IN  /\ r.comparison_df # None
        /\ cache' = [filled |-> TRUE, value |-> r]
        /\ comparison_df' = r.comparison_df
        /\ countries' = r.countries
        /\ comparator' = Analyzer
        /\ notes' = r.notes
        /\ op' = "Country Comparison"
        /\ view' = summary_statistics_table(r.comparison_df)
        /\ UNCHANGED files

(* lines 170-180, 207-218 *)
IndividualCountries ==
    LET r == cached_load
    IN  /\ r.comparison_df # None
        /\ \E country \in DOMAIN r.countries :
              LET df_country == r.countries[country]
                  res == generate_country_insights(df_country, country)
                  shown == IF NRows(res.df) < HeadSize THEN NRows(res.df) ELSE HeadSize
              IN  view' = IF res.ret.kind = "fault" THEN res.ret
                          ELSE [kind |-> "individual", insights |-> res.ret,
                                trend_records |-> shown]
        /\ cache' = [filled |-> TRUE, value |-> r]
        /\ comparison_df' = r.comparison_df
        /\ countries' = r.countries
        /\ comparator' = Analyzer
        /\ notes' = r.notes
        /\ op' = "Individual Countries"
        /\ UNCHANGED files

(* lines 170-180, 220-221 *)
KeyObservations ==
    LET r == cached_load
    IN  /\ r.comparison_df # None
        /\ cache' = [filled |-> TRUE, value |-> r]
        /\ comparison_df' = r.comparison_df
        /\ countries' = r.countries
        /\ comparator' = Analyzer
        /\ notes' = r.notes
        /\ op' = "Key Observations"
        /\ view' = generate_key_observations(r.comparison_df)
        /\ UNCHANGED files

(* comparator.summary_statistics_table() called on the loaded table *)
CallSummaryStatisticsTable ==
    /\ comparator # None
    /\ op' = "summary_statistics_table"
    /\ view' = summary_statistics_table(comparison_df)
    /\ UNCHANGED <<files, cache, comparison_df, countries, comparator, notes>>

(* comparator.generate_key_observations() called on the loaded table *)
CallGenerateKeyObservations ==
    /\ comparator # None
    /\ op' = "generate_key_observations"
    /\ view' = generate_key_observations(comparison_df)
    /\ UNCHANGED <<files, cache, comparison_df, countries, comparator, notes>>

(* generate_country_insights(countries[c], c) called on a loaded table itself *)
CallGenerateCountryInsights ==
    /\ cache.filled
    /\ \E country \in DOMAIN countries :
          LET res == generate_country_insights(countries[country], country)
          IN  /\ countries' = [countries EXCEPT ![country] = res.df]
              /\ view' = [kind |-> "returned", given |-> countries[country],
                          ret |-> res.ret, left |-> res.df]
    /\ op' = "generate_country_insights"
    /\ UNCHANGED <<files, cache, comparison_df, comparator, notes>>

(* generate_country_insights(None, c) *)
CallGenerateCountryInsightsNone ==
    /\ cache.filled
    /\ \E country \in Countries :
          LET res == generate_country_insights(None, country)
          IN  view' = [kind |-> "returned", given |-> None,
                       ret |-> res.ret, left |-> res.df]
    /\ op' = "generate_country_insights"
    /\ UNCHANGED <<files, cache, comparison_df, countries, comparator, notes>>

Next ==
    \/ MainHalt
    \/ Overview
    \/ CountryComparison
    \/ IndividualCountries
    \/ KeyObservations
    \/ CallGenerateCountryInsights
    \/ CallGenerateCountryInsightsNone

Spec == Init /\ [][Next]_vars

----------------------------------------------------------------------------
(* The analyzer and insight functions applied to loaded tables: the      *)
(* initial states are those after lines 170-176 of main                  *)

TablesOver(rowSet, maxRows) ==
    {MissingFile} \cup {CsvFile(rs) : rs \in SeqsUpTo(rowSet, maxRows)}

Loaded(fs) ==
    \E r \in {load_data(fs)} :
        /\ files = fs
        /\ cache = [filled |-> TRUE, value |-> r]
        /\ comparison_df = r.comparison_df
        /\ countries = r.countries
        /\ comparator = IF r.comparison_df = None THEN None ELSE Analyzer
        /\ notes = r.notes
        /\ op = "load_data"
        /\ view = NoView

(* GHI and DNI vary, and rank the countries differently *)
RankRows ==
    {Row(720, <<1>>, <<9>>, <<4>>, <<25>>, 1),
     Row(720, <<9>>, <<1>>, <<4>>, <<25>>, 1),
     Row(720, NaN, NaN, <<4>>, <<25>>, 1)}

InitRank == \E fs \in [Countries -> TablesOver(RankRows, MaxRows)] : Loaded(fs)

(* Tamb varies around the reference temperature *)
TempRows == {Row(720, <<5>>, <<5>>, <<5>>, t, 1) : t \in {NaN, <<20>>, <<26>>, <<30>>}}

InitTemp == \E fs \in [Countries -> TablesOver(TempRows, MaxRows)] : Loaded(fs)

NextObservations == CallGenerateKeyObservations

SpecRank == InitRank /\ [][NextObservations]_vars

SpecTemp == InitTemp /\ [][NextObservations]_vars

(* the three metrics vary, each with missing cells; one row stands for two records *)
SummaryRows ==
    {Row(720, <<1>>, NaN, <<7>>, <<25>>, 1),
     Row(720, <<4>>, <<2>>, NaN, <<25>>, 2),
     Row(720, NaN, <<6>>, <<3>>, <<25>>, 1)}

InitSummary == \E fs \in [Countries -> TablesOver(SummaryRows, MaxRows)] : Loaded(fs)

NextSummary == CallSummaryStatisticsTable

SpecSummary == InitSummary /\ [][NextSummary]_vars

(* the hour (1, 12, and 1 of the next day) and GHI vary; one country has data *)
PeakRows ==
    {Row(t, g, <<1>>, <<1>>, <<25>>, 1) : t \in {60, 720, 1500}, g \in {NaN, <<2>>, <<6>>}}

InitPeak ==
    \E c \in Countries, f \in TablesOver(PeakRows, MaxPeakRows) :
        Loaded([x \in Countries |-> IF x = c THEN f ELSE MissingFile])

NextPeak ==
    \/ CallGenerateCountryInsights
    \/ CallGenerateCountryInsightsNone

SpecPeak == InitPeak /\ [][NextPeak]_vars

----------------------------------------------------------------------------
(* Properties *)

Pages == {"Overview", "Country Comparison", "Individual Countries", "Key Observations"}

MetricSet == {Metrics[i] : i \in DOMAIN Metrics}

(* the try body of load_data completes for country c *)
Succeeded(c) == files[c].exists /\ "Timestamp" \in files[c].cols

FileRecords(c) == SumN(files[c].rows, 1)

RECURSIVE SumRecords(_)
SumRecords(S) ==
    IF S = {} THEN 0
    ELSE LET c == CHOOSE x \in S : TRUE
         IN  FileRecords(c) + SumRecords(S \ {c})

(* C1: whatever each of the three reads does, load_data goes through all  *)
(* three countries, its mapping holds exactly the countries whose read    *)
(* succeeded, and the combined table has as many records as the loaded    *)
(* files together.                                                        *)
C1_LoadSkipsFailures ==
    cache.filled =>
        LET r == cache.value
            ok == {c \in Countries : Succeeded(c)}
        IN  /\ DOMAIN r.countries = ok
            /\ Len(r.notes) = Len(FilePaths)
            /\ \A i \in DOMAIN r.notes :
                  /\ r.notes[i].country = FilePaths[i]
                  /\ (r.notes[i].kind = "info") <=> Succeeded(FilePaths[i])
            /\ \A c \in ok : NRows(r.countries[c]) = FileRecords(c)
            /\ (r.comparison_df # None => NRows(r.comparison_df) = SumRecords(ok))

C1_Witness ==
    /\ cache.filled
    /\ ~Succeeded("Benin") /\ ~Succeeded("Sierra Leone")
    /\ files["Benin"].exists /\ ~files["Sierra Leone"].exists
    /\ Succeeded("Togo") /\ FileRecords("Togo") > 0
    /\ comparison_df # None

(* C2: once at least one country is loaded, no page selection ends in an *)
(* unhandled fault.                                                      *)
C2_NoUnhandledFault ==
    (cache.filled /\ DOMAIN cache.value.countries # {} /\ op \in Pages)
        => view.kind # "fault"

(* C3: when no country loads, load_data returns (None, {}) and main      *)
(* reports it and returns with no analyzer and no page rendered; and     *)
(* load_data returns None only when no country loaded.                   *)
C3_TotalLoadFailureHalts ==
    cache.filled =>
        LET r == cache.value
            none == \A c \in Countries : ~Succeeded(c)
        IN  /\ none => /\ r.comparison_df = None
                       /\ DOMAIN r.countries = {}
                       /\ comparison_df = None
                       /\ comparator = None
                       /\ op \notin Pages
                       /\ view.kind \in {"halt", "returned"}
                       /\ notes[Len(notes)] = Note("error", "No data loaded", 0)
            /\ r.comparison_df = None => none

C3_Witness ==
    /\ cache.filled
    /\ \A c \in Countries : ~Succeeded(c)
    /\ op = "main"
    /\ view.kind = "halt"

(* C4: the tables load_data returned keep their rows, columns and values *)
(* through every page selection and every call.                          *)
C4_TablesReadOnly ==
    cache.filled =>
        /\ comparison_df = cache.value.comparison_df
        /\ countries = cache.value.countries

(* the countries with records in the combined table *)
Present == {c \in Countries : \E k \in DOMAIN comparison_df.rows :
                                   comparison_df.rows[k].Country = c}

(* the records of country c whose cell in column m is not missing *)
ValidRows(df, c, m) ==
    {k \in DOMAIN df.rows : df.rows[k].Country = c /\ ~IsNaN(df.rows[k][m])}

RECURSIVE CountOf(_, _)
CountOf(df, K) ==
    IF K = {} THEN 0
    ELSE LET k == CHOOSE x \in K : TRUE
         IN  df.rows[k].n + CountOf(df, K \ {k})

RECURSIVE TotalOf(_, _, _)
TotalOf(df, K, m) ==
    IF K = {} THEN 0
    ELSE LET k == CHOOSE x \in K : TRUE
         IN  df.rows[k].n * df.rows[k][m][1] + TotalOf(df, K \ {k}, m)

(* the mean of column m over the records of c that have a value, or NaN *)
CountryMean(df, c, m) ==
    LET K == ValidRows(df, c, m)
    IN  IF K = {} THEN NaN ELSE <<TotalOf(df, K, m), CountOf(df, K)>>

(* c has a mean of m, and no country has a higher one *)
HasHighestMean(df, c, m) ==
    /\ ~IsNaN(CountryMean(df, c, m))
    /\ \A d \in Countries :
          ~IsNaN(CountryMean(df, d, m))
              => ~RatLess(CountryMean(df, c, m), CountryMean(df, d, m))

(* C5: the country named 'Highest Solar Potential' has the highest mean  *)
(* GHI, the country named 'Best DNI' has the highest mean DNI, and the   *)
(* ranking lists the countries by descending mean GHI.                   *)
C5_NamedCountriesAreTheHighest ==
    (op = "generate_key_observations" /\ view.kind = "observations") =>
        /\ (\E c \in Countries : ~IsNaN(CountryMean(comparison_df, c, "GHI")))
              => HasHighestMean(comparison_df, view.highest.country, "GHI")
        /\ (\E c \in Countries : ~IsNaN(CountryMean(comparison_df, c, "DNI")))
              => HasHighestMean(comparison_df, view.best_dni.country, "DNI")
        /\ \A i, j \in DOMAIN view.ranking :
              LET a == CountryMean(comparison_df, view.ranking[i].country, "GHI")
                  b == CountryMean(comparison_df, view.ranking[j].country, "GHI")
              IN  (i < j /\ ~IsNaN(a) /\ ~IsNaN(b)) => ~RatLess(a, b)

(* |mean - 25| of a mean that is not NaN *)
DistanceToRef(x) == <<Abs(x[1] - RefTemp * x[2]), x[2]>>

(* C6: the 'Optimal Temperature' country is one whose mean Tamb is at    *)
(* the least distance from 25 among the countries present, and the value *)
(* shown with it is its own mean Tamb.                                   *)
C6_OptimalTemperatureIsClosest ==
    (op = "generate_key_observations" /\ view.kind = "observations"
       /\ \E c \in Present : ~IsNaN(CountryMean(comparison_df, c, "Tamb"))) =>
        LET c == view.optimal.country
            own == CountryMean(comparison_df, c, "Tamb")
        IN  /\ c \in Present
            /\ view.optimal.shown = Fmt2(own)
            /\ ~IsNaN(own)
            /\ \A d \in Present :
                  LET other == CountryMean(comparison_df, d, "Tamb")
                  IN  ~IsNaN(other)
                         => ~RatLess(DistanceToRef(other), DistanceToRef(own))

(* the values of column m over the valid records of c *)
ValidValues(df, K, m) == {df.rows[k][m][1] : k \in K}

(* the k-th smallest value of column m over the records K, counted with  *)
(* multiplicity                                                          *)
Ranked(df, K, m, k) ==
    CHOOSE v \in ValidValues(df, K, m) :
        /\ CountOf(df, {x \in K : df.rows[x][m][1] < v}) < k
        /\ k <= CountOf(df, {x \in K : df.rows[x][m][1] <= v})

(* the statistics of entry e are those of column m over the records of c *)
(* that have a value; all undefined when there is none                   *)
StatisticsOver(e, df, c, m) ==
    LET K == ValidRows(df, c, m)
        cnt == CountOf(df, K)
        V == ValidValues(df, K, m)
    IN  IF K = {}
        THEN IsNaN(e.Mean) /\ IsNaN(e.Median) /\ IsNaN(e.Min) /\ IsNaN(e.Max)
        ELSE /\ ~IsNaN(e.Mean) /\ ~IsNaN(e.Median) /\ ~IsNaN(e.Min) /\ ~IsNaN(e.Max)
             /\ RatEq(e.Mean, <<TotalOf(df, K, m), cnt>>)
             /\ RatEq(e.Median, <<Ranked(df, K, m, (cnt + 1) \div 2)
                                    + Ranked(df, K, m, (cnt \div 2) + 1), 2>>)
             /\ \E v \in V : RatEq(e.Min, <<v, 1>>) /\ \A w \in V : v <= w
             /\ \E v \in V : RatEq(e.Max, <<v, 1>>) /\ \A w \in V : w <= v

(* C7: summary_statistics_table gives exactly one entry for each country *)
(* of the input and each of GHI, DNI, DHI; its mean, median, min and max *)
(* are taken over that country's non-missing values of the metric, and   *)
(* are undefined (NaN) when there is no such value.                      *)
C7_SummaryOneEntryPerPair ==
    (op = "summary_statistics_table" /\ Present # {}) =>
        /\ view.kind = "summary"
        /\ DOMAIN view.table = Present \X MetricSet
        /\ LET keys == SummaryKeys(comparison_df)
           IN  \A c \in Present, m \in MetricSet :
                  Cardinality({i \in DOMAIN keys : keys[i] = <<c, m>>}) = 1
        /\ \A c \in Present, m \in MetricSet :
              /\ view.table[<<c, m>>].Country = c
              /\ view.table[<<c, m>>].Metric = m
              /\ StatisticsOver(view.table[<<c, m>>], comparison_df, c, m)

C7_Witness ==
    /\ op = "summary_statistics_table"
    /\ view.kind = "summary"
    /\ Cardinality(Present) = 3
    /\ IsNaN(view.table[<<"Benin", "DNI">>].Mean)
    /\ view.table[<<"Togo", "GHI">>].Mean = <<8, 2>>
    /\ \E k \in DOMAIN comparison_df.rows :
          comparison_df.rows[k].Country = "Togo" /\ IsNaN(comparison_df.rows[k].GHI)

(* the hour of the day of a time given in minutes *)
HourOfDay(t) ==
    CHOOSE h \in 0..23 :
        \E d \in 0..(t \div 1440) :
            d * 1440 + h * 60 <= t /\ t < d * 1440 + (h + 1) * 60

(* the records of the dataset at hour h whose GHI is not missing *)
HourRows(df, h) ==
    {k \in DOMAIN df.rows : HourOfDay(df.rows[k].Timestamp) = h /\ ~IsNaN(df.rows[k].GHI)}

HourAverage(df, h) ==
    <<TotalOf(df, HourRows(df, h), "GHI"), CountOf(df, HourRows(df, h))>>

(* h is an hour of the day with GHI values in the data, no hour has a    *)
(* higher average GHI, and every earlier hour has a lower one            *)
IsPeakHour(df, h) ==
    /\ h \in 0..23
    /\ HourRows(df, h) # {}
    /\ \A g \in 0..23 :
          HourRows(df, g) # {} =>
              /\ ~RatLess(HourAverage(df, h), HourAverage(df, g))
              /\ g < h => RatLess(HourAverage(df, g), HourAverage(df, h))

(* C8 as stated: for every non-empty dataset the reported peak hour is   *)
(* an hour 0..23 of the data with the highest average GHI, the smallest  *)
(* such hour on ties.                                                    *)
C8_PeakHourOfEveryDataset ==
    (op = "generate_country_insights" /\ view.given # None /\ ~IsEmpty(view.given)) =>
        /\ view.ret.kind = "insights"
        /\ ~IsNaN(view.ret.peak_hour)
        /\ IsPeakHour(view.given, view.ret.peak_hour[1])

(* C8 amended: the same for every dataset that has at least one GHI      *)
(* value, the averages being taken over the non-missing GHI values and   *)
(* the hours without any GHI value not being candidates.                 *)
C8_PeakHourWhenGHIPresent ==
    (op = "generate_country_insights" /\ view.given # None /\ ~IsEmpty(view.given)
       /\ \E k \in DOMAIN view.given.rows : ~IsNaN(view.given.rows[k].GHI)) =>
        /\ view.ret.kind = "insights"
        /\ ~IsNaN(view.ret.peak_hour)
        /\ IsPeakHour(view.given, view.ret.peak_hour[1])

C8_Witness ==
    /\ op = "generate_country_insights"
    /\ view.given # None
    /\ view.ret.kind = "insights"
    /\ view.ret.peak_hour = <<1>>
    /\ Len(view.given.rows) = 3
    /\ RatEq(HourAverage(view.given, 1), HourAverage(view.given, 12))
    /\ \E k \in DOMAIN view.given.rows : view.given.rows[k].Timestamp = 1500

(* C9: called with an absent or empty dataset, generate_country_insights *)
(* returns the placeholder, extracts no hour, computes no average,       *)
(* raises nothing and leaves its argument as it was.                     *)
C9_PlaceholderForNoData ==
    (op = "generate_country_insights" /\ (view.given = None \/ IsEmpty(view.given))) =>
        /\ view.ret = [kind |-> "placeholder"]
        /\ view.left = view.given
        /\ view.given # None => "Hour" \notin view.left.cols

C9_Witness ==
    /\ op = "generate_country_insights"
    /\ view.given # None
    /\ IsEmpty(view.given)
    /\ view.ret.kind = "placeholder"
    /\ view.left = countries["Benin"]

(* C10: every line about a named country shows the country's mean when   *)
(* the country is in the combined table and 0 when it is not, and the    *)
(* call does not fail.                                                   *)
C10_AbsentCountryShowsZero ==
    op = "generate_key_observations" =>
        /\ view.kind = "observations"
        /\ \A i \in DOMAIN view.ranking :
              view.ranking[i].shown =
                  IF view.ranking[i].country \in Present
                  THEN Fmt2(CountryMean(comparison_df, view.ranking[i].country, "GHI"))
                  ELSE <<0>>
        /\ view.highest.shown =
              IF view.highest.country \in Present
              THEN Fmt2(CountryMean(comparison_df, view.highest.country, "GHI"))
              ELSE <<0>>
        /\ view.best_dni.shown =
              IF view.best_dni.country \in Present
              THEN Fmt2(CountryMean(comparison_df, view.best_dni.country, "DNI"))
              ELSE <<0>>

====
